---------------------------- MODULE Spec2Model ----------------------------
(***************************************************************************)
(* Model of src/src/index.ts: the tree builder transformToTree and the     *)
(* cache lifecycle around it (GET /api/files, updateCache, the startup     *)
(* callback with its periodic timer).                                      *)
(*                                                                         *)
(* Strings are sequences of tokens: "/" is the path separator, every other *)
(* token stands for a run of characters without "/", "%" or any character  *)
(* that encodeURI / decodeURIComponent would change.  A name (host or path *)
(* segment) is a non-empty sequence of such tokens.                        *)
(***************************************************************************)
EXTENDS Integers, Sequences, FiniteSets, TLC

VARIABLES
    items,      \* transformToTree: the argument list (Item[])
    out,        \* transformToTree: the value returned / exception thrown
    now,        \* Date.now()
    cache,      \* the module-level variable `cache`
    inflight,   \* rebuilds suspended at their await, in start order
    timer,      \* the setInterval timer: armed flag and next firing time
    started,    \* has the app.listen callback run
    resp        \* the most recent response sent by GET /api/files

treeVars  == <<items, out>>
cacheVars == <<now, cache, inflight, timer, started, resp>>
vars      == <<items, out, now, cache, inflight, timer, started, resp>>

-----------------------------------------------------------------------------
(* Bounds *)

MaxItems == 3       \* longest argument list of transformToTree
MaxPeriods == 1     \* the clock runs over MaxPeriods cache durations
MaxInFlight == 2    \* rebuilds in flight at once

-----------------------------------------------------------------------------
(* Raw URLs *)

Slash == "/"

Url(scheme, host, path) == [scheme |-> scheme, host |-> host, path |-> path]

\* fileUrl values of the upstream feed.  The first three are the feed
\* https://ex.com/docs/readme.txt, https://ex.com/docs/, https://ex.com/img.png
UrlReadme    == Url("https", "ex.com", <<"/", "docs", "/", "readme.txt">>)
UrlDocsDir   == Url("https", "ex.com", <<"/", "docs", "/">>)
UrlImg       == Url("https", "ex.com", <<"/", "img.png">>)
UrlDocsFile  == Url("https", "ex.com", <<"/", "docs">>)
UrlReadme2   == Url("https", "ex.com", <<"/", "/", "docs", "/", "/", "readme.txt">>)
UrlNested    == Url("https", "ex.com", <<"/", "docs", "/", "docs", "/">>)
UrlCtorDir   == Url("https", "ex.com", <<"/", "constructor", "/">>)
UrlCtorFile  == Url("https", "ex.com", <<"/", "constructor", "/", "readme.txt">>)
UrlHostOnly  == Url("https", "ex.com", <<>>)
UrlOtherHost == Url("https", "h", <<"/", "docs", "/", "readme.txt">>)
UrlOtherRoot == Url("https", "h", <<"/">>)
UrlNoScheme  == Url("", "ex.com", <<"/", "docs">>)

ValidUrls ==
    { UrlReadme, UrlDocsDir, UrlImg, UrlDocsFile, UrlReadme2, UrlNested,
      UrlCtorDir, UrlCtorFile, UrlHostOnly, UrlOtherHost, UrlOtherRoot }

Urls == ValidUrls \cup { UrlNoScheme }

\* Property names every object inherits from Object.prototype, for which
\* obj[name] is truthy although obj has no own property of that name.
ObjectPrototypeNames == { <<"constructor">> }

-----------------------------------------------------------------------------
(* URL decomposition: lines 49-52 *)

\* new URL(encodedUrl) throws TypeError (Invalid URL) on a string without scheme.
ParsesAsUrl(url) == url.scheme # ""

\* url.pathname: an empty path of an http(s) URL is "/".
Pathname(url) == IF url.path = <<>> THEN <<Slash>> ELSE url.path

\* item.fileUrl.endsWith('/') on the raw string scheme://host path.
isDirectoryUrl(url) == url.path # <<>> /\ url.path[Len(url.path)] = Slash

RECURSIVE SplitAcc(_, _, _)
SplitAcc(s, piece, acc) ==
    IF s = <<>> THEN Append(acc, piece)
    ELSE IF Head(s) = Slash THEN SplitAcc(Tail(s), <<>>, Append(acc, piece))
    ELSE SplitAcc(Tail(s), Append(piece, Head(s)), acc)

\* String.prototype.split('/')
Split(s) == SplitAcc(s, <<>>, <<>>)

NonEmptyPart(p) == p # <<>>

\* [url.hostname, ...url.pathname.split('/').filter(part => part).map(decodeURIComponent)]
Parts(url) == <<(<<url.host>>)>> \o SelectSeq(Split(Pathname(url)), NonEmptyPart)

-----------------------------------------------------------------------------
(* Trees: an object is the sequence of its keys in insertion order, an     *)
(* array the sequence of its elements.  A string element is a "file"       *)
(* entry, a single-key object {name: [...]} a "dir" entry.                 *)

File(n)   == [k |-> "file", n |-> n, c |-> <<>>]
Dir(n, c) == [k |-> "dir",  n |-> n, c |-> c]

NoErr == "none"
Returned(tree) == [err |-> NoErr, tree |-> tree]
Thrown(e)      == [err |-> e, tree |-> <<>>]

\* Array.prototype.find as an index: the first of the matching indices, 0
\* (undefined) if there is none.
FirstIndex(hits) ==
    IF hits = {} THEN 0 ELSE CHOOSE i \in hits : \A j \in hits : i <= j

\* line 65: typeof entry === 'object' && entry !== null && entry[part]
MatchesDirectory(entry, part) ==
    entry.k = "dir" /\ (entry.n = part \/ part \in ObjectPrototypeNames)

\* line 78: entry !== null && typeof entry === 'string' && entry === part
MatchesFile(entry, part) == entry.k = "file" /\ entry.n = part

\* mutants of FindDirectory and FindFile: the lookup is skipped
FindDirectoryNever(arr, part) == 0
FindFileNever(arr, part) == 0

\* line 65 and line 78: Array.prototype.find
FindDirectory(arr, part) ==
    FirstIndex({ i \in 1..Len(arr) : MatchesDirectory(arr[i], part) })
FindFile(arr, part) ==
    FirstIndex({ i \in 1..Len(arr) : MatchesFile(arr[i], part) })

\* line 63: index < parts.length - 1 || isDirectoryUrl   (index = i - 1)
IsDirectoryPart(i, n, isDir) == i < n \/ isDir

\* the array reached from the root by the index path cur
RECURSIVE ChildrenAt(_, _)
ChildrenAt(entries, cur) ==
    IF cur = <<>> THEN entries ELSE ChildrenAt(entries[cur[1]].c, Tail(cur))

\* mutant of Push: the new element goes to the front
Unshift(arr, e) == <<e>> \o arr

\* lines 69, 80 (and the new key of line 60): Array.prototype.push
Push(arr, e) == Append(arr, e)

\* the push of lines 69 and 80 on the array at cur
RECURSIVE PushAt(_, _, _)
PushAt(entries, cur, e) ==
    IF cur = <<>> THEN Push(entries, e)
    ELSE [entries EXCEPT ![cur[1]].c = PushAt(@, Tail(cur), e)]

\* The walk of one item keeps (currentTree, currentDirName) as `cur`, the
\* index path of the array currentTree[currentDirName]; isArray is FALSE
\* when that expression is an inherited member and not an array, so that
\* calling .find on it throws TypeError.
WalkState(tree, cur, isArray, err) ==
    [tree |-> tree, cur |-> cur, isArray |-> isArray, err |-> err]

\* lines 57-62
PlaceHost(st, part) ==
    LET j == FirstIndex({ i \in 1..Len(st.tree) : st.tree[i].n = part })
    IN IF j # 0 THEN WalkState(st.tree, <<j>>, TRUE, NoErr)
       ELSE IF part \in ObjectPrototypeNames
            THEN WalkState(st.tree, <<>>, FALSE, NoErr)
       ELSE WalkState(Push(st.tree, Dir(part, <<>>)), <<Len(st.tree) + 1>>, TRUE, NoErr)

\* lines 63-75
PlaceDirectory(st, part, last) ==
    LET arr    == ChildrenAt(st.tree, st.cur)
        found  == FindDirectory(arr, part)
        tree2  == IF found = 0 THEN PushAt(st.tree, st.cur, Dir(part, <<>>)) ELSE st.tree
        j      == IF found = 0 THEN Len(arr) + 1 ELSE found
        name   == IF found = 0 THEN part ELSE arr[found].n
    IN IF last THEN WalkState(tree2, st.cur, TRUE, NoErr)
       ELSE WalkState(tree2, st.cur \o <<j>>, name = part, NoErr)

\* lines 76-82
PlaceFile(st, part) ==
    LET arr == ChildrenAt(st.tree, st.cur)
    IN IF FindFile(arr, part) = 0
       THEN WalkState(PushAt(st.tree, st.cur, File(part)), st.cur, TRUE, NoErr)
       ELSE st

\* lines 56-83, one iteration of parts.forEach
PlacePart(st, parts, isDir, i) ==
    IF i = 1 THEN PlaceHost(st, parts[i])
    ELSE IF ~st.isArray THEN WalkState(st.tree, st.cur, FALSE, "TypeError")
    ELSE IF IsDirectoryPart(i, Len(parts), isDir)
         THEN PlaceDirectory(st, parts[i], i = Len(parts))
    ELSE PlaceFile(st, parts[i])

RECURSIVE WalkParts(_, _, _, _)
WalkParts(st, parts, isDir, i) ==
    IF i > Len(parts) \/ st.err # NoErr THEN st
    ELSE WalkParts(PlacePart(st, parts, isDir, i), parts, isDir, i + 1)

\* mutant of AddItem: an item whose URL does not parse is skipped
AddItemSkipInvalid(tree, url) ==
    IF ~ParsesAsUrl(url) THEN Returned(tree)
    ELSE LET st == WalkParts(WalkState(tree, <<>>, TRUE, NoErr),
                             Parts(url), isDirectoryUrl(url), 1)
         IN IF st.err # NoErr THEN Thrown(st.err) ELSE Returned(st.tree)

\* lines 48-85, one iteration of items.forEach
AddItem(tree, url) ==
    IF ~ParsesAsUrl(url) THEN Thrown("InvalidURL")
    ELSE LET st == WalkParts(WalkState(tree, <<>>, TRUE, NoErr),
                             Parts(url), isDirectoryUrl(url), 1)
         IN IF st.err # NoErr THEN Thrown(st.err) ELSE Returned(st.tree)

RECURSIVE TransformFrom(_, _)
TransformFrom(tree, list) ==
    IF list = <<>> THEN Returned(tree)
    ELSE LET r == AddItem(tree, Head(list))
         IN IF r.err # NoErr THEN r ELSE TransformFrom(r.tree, Tail(list))

\* lines 45-88
transformToTree(list) == TransformFrom(<<>>, list)

-----------------------------------------------------------------------------
(* transformToTree as a specification of its own: any argument list *)

NotRun == [err |-> "notrun", tree |-> <<>>]

ItemLists == UNION { [1..n -> Urls] : n \in 0..MaxItems }

-----------------------------------------------------------------------------
(* Cache lifecycle *)

CACHE_DURATION_MS == 60000

\* Instants the clock takes: each multiple of the cache duration, one
\* millisecond after it and one millisecond before the next, up to the end
\* of the last period.
TimePoints ==
    { p * CACHE_DURATION_MS + d :
        p \in 0..MaxPeriods, d \in {0, 1, CACHE_DURATION_MS - 1} }
    \cup { (MaxPeriods + 1) * CACHE_DURATION_MS }

\* line 25: let cache = null
NoCache == [present |-> FALSE, tree |-> <<>>, timestamp |-> 0]
Snapshot(tree, timestamp) == [present |-> TRUE, tree |-> tree, timestamp |-> timestamp]

\* mutant of IsFresh: a snapshot aged exactly one cache duration still counts
IsFreshInclusive(c, t) == c.present /\ (t - c.timestamp) <= CACHE_DURATION_MS

\* line 96: cache && (Date.now() - cache.timestamp) < CACHE_DURATION_MS
IsFresh(c, t) == c.present /\ (t - c.timestamp) < CACHE_DURATION_MS

\* What `await fetchDataAndTransform()` can settle with (lines 16-22): the
\* items of a response, or an axios rejection carrying a response (status),
\* only a request, or neither.
FeedExample == <<UrlReadme, UrlDocsDir, UrlImg>>
FeedOther   == <<UrlOtherHost, UrlImg>>
FeedInvalid == <<UrlReadme, UrlNoScheme>>
FeedThrows  == <<UrlDocsDir, UrlCtorFile>>
Feeds == { FeedExample, FeedOther, FeedInvalid, FeedThrows }

Rejection(kind, status) == [kind |-> kind, status |-> status, list |-> <<>>]
Settlements ==
    { [kind |-> "items", status |-> 200, list |-> f] : f \in Feeds }
    \cup { Rejection("response", s) : s \in {504, 502, 404} }
    \cup { Rejection("request", 0), Rejection("setup", 0) }

\* line 21 for each feed: transformToTree(items), evaluated once per feed
TreeOfFeed == [f \in Feeds |-> transformToTree(f)]

\* lines 16-22: the tree, or the error the await throws
fetchDataAndTransform(settled) ==
    IF settled.kind = "items"
    THEN LET r == TreeOfFeed[settled.list]
         IN IF r.err = NoErr THEN [ok |-> TRUE, tree |-> r.tree, error |-> Rejection("none", 0)]
            ELSE [ok |-> FALSE, tree |-> <<>>, error |-> Rejection(r.err, 0)]
    ELSE [ok |-> FALSE, tree |-> <<>>, error |-> settled]

\* mutant of ErrorStatus: the branch for a request without response is missing
ErrorStatusNoRequestBranch(error) ==
    IF error.kind = "response"
    THEN IF error.status = 504 THEN 504
         ELSE IF error.status = 502 THEN 502
         ELSE 500
    ELSE 500

\* lines 115-127: the status of the error response
ErrorStatus(error) ==
    IF error.kind = "response"
    THEN IF error.status = 504 THEN 504
         ELSE IF error.status = 502 THEN 502
         ELSE 500
    ELSE IF error.kind = "request" THEN 502
    ELSE 500

NoResponse == [status |-> 0, src |-> "none", tree |-> <<>>]
TreeResponse(src, tree) == [status |-> 200, src |-> src, tree |-> tree]

\* mutant of ErrorResponse: a failed rebuild falls back to the snapshot it has
StaleFallback(status) ==
    IF cache.present THEN TreeResponse("cache", cache.tree)
    ELSE [status |-> status, src |-> "rebuild", tree |-> <<>>]

\* lines 117-126: res.status(...).json({ error: ... })
ErrorResponse(status) == [status |-> status, src |-> "rebuild", tree |-> <<>>]

Rebuild(who, initial, startedAt) ==
    [who |-> who, initial |-> initial, startedAt |-> startedAt]

\* mutant of UpdateCacheTimestamp: the timestamp is taken once, when the module loads
UpdateCacheTimestampAtLoad(startedAt, completedAt) == 0

\* lines 31-33: newCache.timestamp is evaluated before the await
UpdateCacheTimestamp(startedAt, completedAt) == startedAt
\* lines 106-109: timestamp is evaluated after the await
GetTimestamp(startedAt, completedAt) == completedAt

\* mutant of Publish: a failed rebuild clears the cache
PublishOrClear(c, r, timestamp) ==
    IF r.ok THEN Snapshot(r.tree, timestamp) ELSE NoCache

\* mutant of Publish: a snapshot is not replaced by one with an older timestamp
PublishIfNewer(c, r, timestamp) ==
    IF r.ok /\ (~c.present \/ c.timestamp <= timestamp)
    THEN Snapshot(r.tree, timestamp) ELSE c

\* mutant of Publish: a failed rebuild restamps the snapshot it finds
PublishOrTouch(c, r, timestamp) ==
    IF r.ok THEN Snapshot(r.tree, timestamp)
    ELSE IF c.present THEN [c EXCEPT !.timestamp = timestamp] ELSE c

\* lines 30-35 and 103-109: the assignment to `cache` is reached only when
\* the await did not throw
Publish(c, r, timestamp) ==
    IF r.ok THEN Snapshot(r.tree, timestamp) ELSE c

\* mutant of TimerAfter: the interval is set only after a successful initial update
TimerAfterSuccess(initial, r, t) ==
    IF initial /\ r.ok THEN [armed |-> TRUE, next |-> t + CACHE_DURATION_MS] ELSE timer

\* lines 135-136: updateCache catches its own errors (lines 39-41), so the
\* awaited initial call always returns and setInterval is reached
TimerAfter(initial, r, t) ==
    IF initial THEN [armed |-> TRUE, next |-> t + CACHE_DURATION_MS] ELSE timer

RemoveAt(s, i) == SubSeq(s, 1, i - 1) \o SubSeq(s, i + 1, Len(s))

Init ==
    /\ items = <<>>
    /\ out = NotRun
    /\ now = 0
    /\ cache = NoCache
    /\ inflight = <<>>
    /\ timer = [armed |-> FALSE, next |-> 0]
    /\ started = FALSE
    /\ resp = NoResponse

\* lines 133-135: the listen callback calls updateCache, which runs to its await
Listen ==
    /\ ~started
    /\ started' = TRUE
    /\ inflight' = Append(inflight, Rebuild("updateCache", TRUE, now))
    /\ UNCHANGED <<items, out, now, cache, timer, resp>>

\* mutant of Tick: the interval callback refreshes only a snapshot that is not Fresh
TickWhenNotFresh ==
    /\ timer.armed
    /\ now = timer.next
    /\ ~IsFresh(cache, now)
    /\ Len(inflight) < MaxInFlight
    /\ inflight' = Append(inflight, Rebuild("updateCache", FALSE, now))
    /\ timer' = [timer EXCEPT !.next = @ + CACHE_DURATION_MS]
    /\ UNCHANGED <<items, out, now, cache, started, resp>>

\* line 136 firing: the interval callback calls updateCache, which runs to its await
Tick ==
    /\ timer.armed
    /\ now = timer.next
    /\ Len(inflight) < MaxInFlight
    /\ inflight' = Append(inflight, Rebuild("updateCache", FALSE, now))
    /\ timer' = [timer EXCEPT !.next = @ + CACHE_DURATION_MS]
    /\ UNCHANGED <<items, out, now, cache, started, resp>>

\* lines 94-100: a request that is served from the cache
GetFromCache ==
    /\ started
    /\ IsFresh(cache, now)
    /\ resp' = TreeResponse("cache", cache.tree)
    /\ UNCHANGED <<items, out, now, cache, inflight, timer, started>>

\* mutant of GetStartsFetch: a request starts a fetch only when no rebuild is in flight
GetStartsFetchCoalesced ==
    /\ started
    /\ ~IsFresh(cache, now)
    /\ inflight = <<>>
    /\ inflight' = Append(inflight, Rebuild("get", FALSE, now))
    /\ UNCHANGED <<items, out, now, cache, timer, started, resp>>

\* lines 94-105: a request that starts a rebuild and suspends at its await
GetStartsFetch ==
    /\ started
    /\ ~IsFresh(cache, now)
    /\ Len(inflight) < MaxInFlight
    /\ inflight' = Append(inflight, Rebuild("get", FALSE, now))
    /\ UNCHANGED <<items, out, now, cache, timer, started, resp>>

\* lines 33-41 (and 135-136 for the initial call): updateCache resumes
UpdateCacheSettles(i, settled) ==
    /\ inflight[i].who = "updateCache"
    /\ LET r == fetchDataAndTransform(settled)
       IN cache' = Publish(cache, r, UpdateCacheTimestamp(inflight[i].startedAt, now))
    /\ timer' = TimerAfter(inflight[i].initial, fetchDataAndTransform(settled), now)
    /\ inflight' = RemoveAt(inflight, i)
    /\ UNCHANGED <<items, out, now, started, resp>>

\* lines 105-128: the request handler resumes
GetSettles(i, settled) ==
    /\ inflight[i].who = "get"
    /\ LET r == fetchDataAndTransform(settled)
       IN /\ cache' = Publish(cache, r, GetTimestamp(inflight[i].startedAt, now))
          /\ resp' = IF r.ok THEN TreeResponse("rebuild", r.tree)
                     ELSE ErrorResponse(ErrorStatus(r.error))
    /\ inflight' = RemoveAt(inflight, i)
    /\ UNCHANGED <<items, out, now, timer, started>>

\* the clock; the interval timer fires at its time, so the clock does not pass it
Advance(t) ==
    /\ t > now
    /\ timer.armed => (now < timer.next /\ t <= timer.next)
    /\ now' = t
    /\ UNCHANGED <<items, out, cache, inflight, timer, started, resp>>

Next ==
    \/ Listen
    \/ Tick
    \/ GetFromCache
    \/ GetStartsFetch
    \/ \E i \in 1..Len(inflight), s \in Settlements : UpdateCacheSettles(i, s)
    \/ \E i \in 1..Len(inflight), s \in Settlements : GetSettles(i, s)
    \/ \E t \in TimePoints : Advance(t)

Spec == Init /\ [][Next]_vars

-----------------------------------------------------------------------------
(* Properties of the cache lifecycle, checked under Spec *)

ErrorStatuses == {500, 502, 504}

\* a settlement on which the rebuild fails: the fetch rejects or the build throws
Fails(s) == s.kind # "items" \/ TreeOfFeed[s.list].err # NoErr
\* the tree a rebuild builds from a settlement carrying items
BuiltTree(s) == TreeOfFeed[s.list].tree

SettleStep(i, s) == UpdateCacheSettles(i, s) \/ GetSettles(i, s)

\* C1: a request is served from the cache, with no fetch started, exactly when
\* a snapshot exists and now - timestamp < CACHE_DURATION_MS; when there is no
\* snapshot or now - timestamp >= CACHE_DURATION_MS (equality included) the
\* request starts a fetch.
C1_FreshnessBoundary ==
    [][ /\ GetFromCache =>
              /\ cache.present
              /\ now - cache.timestamp < CACHE_DURATION_MS
              /\ resp' = [status |-> 200, src |-> "cache", tree |-> cache.tree]
              /\ inflight' = inflight
        /\ GetStartsFetch =>
              /\ ~cache.present \/ now - cache.timestamp >= CACHE_DURATION_MS
              /\ Len(inflight') = Len(inflight) + 1
              /\ inflight'[Len(inflight')].who = "get"
              /\ resp' = resp
      ]_vars

\* C1 witness: a request has just started a fetch on a snapshot aged exactly
\* one cache duration.
C1_Witness ==
    /\ cache.present
    /\ now - cache.timestamp = CACHE_DURATION_MS
    /\ \E i \in 1..Len(inflight) :
          inflight[i].who = "get" /\ inflight[i].startedAt = now

\* C2: every response carrying a tree carries either the tree of a snapshot
\* younger than the cache duration at the moment of the check, or the tree
\* the request's own rebuild has just built; a request whose rebuild fails
\* is answered with an error status and no tree.
C2_NoStaleServed ==
    [][ /\ resp' # resp =>
              \/ GetFromCache
              \/ \E i \in 1..Len(inflight), s \in Settlements : GetSettles(i, s)
        /\ GetFromCache =>
              /\ resp'.status = 200
              /\ resp'.tree = cache.tree
              /\ cache.present /\ now - cache.timestamp < CACHE_DURATION_MS
        /\ \A i \in 1..Len(inflight), s \in Settlements :
              GetSettles(i, s) =>
                 \/ /\ ~Fails(s)
                    /\ resp'.status = 200 /\ resp'.src = "rebuild"
                    /\ resp'.tree = BuiltTree(s)
                 \/ /\ Fails(s)
                    /\ resp'.status \in ErrorStatuses
                    /\ resp'.tree = <<>>
      ]_vars

\* C2 witness: the last request was answered with an error while a snapshot
\* older than the cache duration sits in the cache.
C2_Witness ==
    /\ resp.status \in ErrorStatuses
    /\ cache.present
    /\ cache.tree # <<>>
    /\ now - cache.timestamp >= CACHE_DURATION_MS
    /\ inflight = <<>>

\* C3: a rebuild that fails writes nothing to the cache; the failure of a
\* request's rebuild is answered with an error status, the failure of a
\* background rebuild changes no response.
C3_FailureIsolation ==
    [][ \A i \in 1..Len(inflight), s \in Settlements :
           /\ (UpdateCacheSettles(i, s) /\ Fails(s)) =>
                 (cache' = cache /\ resp' = resp)
           /\ (GetSettles(i, s) /\ Fails(s)) =>
                 (cache' = cache /\ resp'.status \in ErrorStatuses)
      ]_vars

\* C3 witness: a snapshot is in the cache, the last request failed, and
\* no rebuild is in flight.
C3_Witness ==
    /\ cache.present
    /\ cache.tree # <<>>
    /\ resp.status \in ErrorStatuses
    /\ inflight = <<>>

\* C4 (as claimed): every successful rebuild, of a request or of updateCache,
\* publishes a snapshot whose timestamp is the time of publication.
C4_BuiltAtIsPublicationTime ==
    [][ \A i \in 1..Len(inflight), s \in Settlements :
           (SettleStep(i, s) /\ ~Fails(s)) =>
               (cache'.present /\ cache'.timestamp = now)
      ]_vars

\* C5: a rebuild that completes successfully replaces the snapshot with the
\* tree it built, whatever its position in the start order and whatever the
\* snapshot it finds, so the snapshot left is that of the last to complete.
C5_LastWriterWins ==
    [][ \A i \in 1..Len(inflight), s \in Settlements :
           (SettleStep(i, s) /\ ~Fails(s)) =>
               (cache'.present /\ cache'.tree = BuiltTree(s))
      ]_vars

\* C5 witness: the initial background rebuild (started at 0, before any
\* request) has just completed, after time has passed, and has overwritten
\* the snapshot a request's rebuild had published.
C5_Witness ==
    /\ cache.present
    /\ cache.timestamp = 0
    /\ now > 0
    /\ timer.armed /\ timer.next = now + CACHE_DURATION_MS
    /\ resp.status = 200 /\ resp.src = "rebuild"
    /\ resp.tree # cache.tree
    /\ inflight = <<>>

-----------------------------------------------------------------------------
(* transformToTree alone *)

TreeInit ==
    /\ items \in ItemLists
    /\ out = NotRun
    /\ now = 0
    /\ cache = NoCache
    /\ inflight = <<>>
    /\ timer = [armed |-> FALSE, next |-> 0]
    /\ started = FALSE
    /\ resp = NoResponse

Transform ==
    /\ out = NotRun
    /\ out' = transformToTree(items)
    /\ UNCHANGED <<items, now, cache, inflight, timer, started, resp>>

TreeNext == Transform

TreeSpec == TreeInit /\ [][TreeNext]_vars

-----------------------------------------------------------------------------
(* Properties of transformToTree, checked under TreeSpec *)

\* every array of a tree, with the names of the directories leading to it
RECURSIVE Arrays(_, _)
Arrays(entries, path) ==
    { [path |-> path, arr |-> entries] }
    \cup UNION { Arrays(entries[i].c, Append(path, entries[i].n)) :
                    i \in { j \in 1..Len(entries) : entries[j].k = "dir" } }

\* the array reached by following directory names from the root
RECURSIVE ArrayAt(_, _)
ArrayAt(entries, path) ==
    IF path = <<>> THEN [found |-> TRUE, arr |-> entries]
    ELSE LET idx == { i \in 1..Len(entries) :
                        entries[i].k = "dir" /\ entries[i].n = path[1] }
         IN IF idx = {} THEN [found |-> FALSE, arr |-> <<>>]
            ELSE ArrayAt(entries[CHOOSE i \in idx : \A j \in idx : i <= j].c, Tail(path))

HasEntry(tree, path, kind, name) ==
    LET a == ArrayAt(tree, path)
    IN a.found /\ \E i \in 1..Len(a.arr) : a.arr[i].k = kind /\ a.arr[i].n = name

\* what segment i of an item names: a directory or a file
KindOf(url, i) ==
    IF i < Len(Parts(url)) \/ isDirectoryUrl(url) \/ i = 1 THEN "dir" ELSE "file"

InsertAt(list, q, x) == SubSeq(list, 1, q - 1) \o <<x>> \o SubSeq(list, q, Len(list))

TreeOfPrefix(k) == transformToTree(SubSeq(items, 1, k)).tree

\* C6 (as claimed): no two entries of one parent share a name, files and
\* directories counted together.
C6_UniqueNames ==
    out.err = NoErr =>
        \A a \in Arrays(out.tree, <<>>) :
            \A i, j \in 1..Len(a.arr) : i < j => a.arr[i].n # a.arr[j].n

\* C6 (amended): no two file entries of one parent share a name, and no two
\* directory entries of one parent share a name.
C6_UniqueNamesPerKind ==
    out.err = NoErr =>
        \A a \in Arrays(out.tree, <<>>) :
            \A i, j \in 1..Len(a.arr) :
                (i < j /\ a.arr[i].k = a.arr[j].k) => a.arr[i].n # a.arr[j].n

\* C6 witness: a returned tree in which a file and a directory of one parent
\* have the same name.
C6_Witness ==
    /\ out.err = NoErr
    /\ \E a \in Arrays(out.tree, <<>>) :
          \E i, j \in 1..Len(a.arr) :
              a.arr[i].n = a.arr[j].n /\ a.arr[i].k = "file" /\ a.arr[j].k = "dir"

\* C7: a second occurrence of a URL of the list, inserted at any later
\* position, changes nothing in what transformToTree returns.
C7_Idempotent ==
    out # NotRun =>
        \A p \in 1..Len(items) : \A q \in (p + 1)..(Len(items) + 1) :
            transformToTree(InsertAt(items, q, items[p])) = out

\* C7 witness: a tree was returned for a list holding the same URL twice.
C7_Witness ==
    /\ out.err = NoErr
    /\ out.tree # <<>>
    /\ \E p, q \in 1..Len(items) : p < q /\ items[p] = items[q]

\* the first item of the list that names `name` as a `kind` under the
\* directory path `path`, 0 if none does
FirstSeen(path, kind, name) ==
    LET hits == { j \in 1..Len(items) :
                    LET ps == Parts(items[j])
                    IN /\ Len(ps) > Len(path)
                       /\ SubSeq(ps, 1, Len(path)) = path
                       /\ ps[Len(path) + 1] = name
                       /\ KindOf(items[j], Len(path) + 1) = kind }
    IN IF hits = {} THEN 0 ELSE CHOOSE j \in hits : \A h \in hits : j <= h

RECURSIVE IsPrefixTree(_, _)
IsPrefixTree(t1, t2) ==
    /\ Len(t1) <= Len(t2)
    /\ \A i \in 1..Len(t1) :
          /\ t1[i].k = t2[i].k
          /\ t1[i].n = t2[i].n
          /\ IsPrefixTree(t1[i].c, t2[i].c)

\* C8: the entries of every parent stand in the order in which the list first
\* names them under that parent, and each further item leaves the entries
\* already there in place, adding only at the end.
C8_OrderPreserved ==
    out.err = NoErr =>
        /\ \A a \in Arrays(out.tree, <<>>) :
              /\ \A i \in 1..Len(a.arr) :
                    FirstSeen(a.path, a.arr[i].k, a.arr[i].n) # 0
              /\ \A i, j \in 1..Len(a.arr) :
                    i < j => FirstSeen(a.path, a.arr[i].k, a.arr[i].n)
                               < FirstSeen(a.path, a.arr[j].k, a.arr[j].n)
        /\ \A k \in 0..(Len(items) - 1) :
              IsPrefixTree(TreeOfPrefix(k), TreeOfPrefix(k + 1))

\* C8 witness: a returned tree with a parent of two entries, built from a
\* list whose last item names an entry an earlier item had created.
C8_Witness ==
    /\ out.err = NoErr
    /\ Len(items) >= 2
    /\ TreeOfPrefix(Len(items) - 1) = out.tree
    /\ \E a \in Arrays(out.tree, <<>>) : Len(a.arr) >= 2

\* C9 (as claimed): for every item, every segment before the last is a
\* directory entry of its parent, and the last segment is a file entry when
\* the raw URL does not end with "/" and a directory entry when it does.
C9_Placement ==
    out.err = NoErr =>
        \A j \in 1..Len(items) :
            LET ps == Parts(items[j])
            IN \A i \in 2..Len(ps) :
                  HasEntry(out.tree, SubSeq(ps, 1, i - 1), KindOf(items[j], i), ps[i])

ExampleTree ==
    << Dir(<<"ex.com">>,
           << Dir(<<"docs">>, << File(<<"readme.txt">>) >>),
              File(<<"img.png">>) >>) >>

\* C10: a parent has one directory entry per directory name, every file of
\* the list is an entry of the one directory its path names, a directory URL
\* naming a directory that is already there changes nothing, a file URL
\* under a directory that is already there adds at most its file entry to
\* it, and the feed docs/readme.txt, docs/, img.png gives
\* {ex.com: [{docs: [readme.txt]}, img.png]}.
C10_DirectoryMerging ==
    out.err = NoErr =>
        /\ \A a \in Arrays(out.tree, <<>>) :
              \A i, j \in 1..Len(a.arr) :
                  (i < j /\ a.arr[i].k = "dir" /\ a.arr[j].k = "dir")
                      => a.arr[i].n # a.arr[j].n
        /\ \A j \in 1..Len(items) :
              LET ps == Parts(items[j])
                  n  == Len(ps)
                  before == TreeOfPrefix(j - 1)
                  after  == TreeOfPrefix(j)
              IN /\ (n >= 2 /\ ~isDirectoryUrl(items[j])) =>
                        HasEntry(out.tree, SubSeq(ps, 1, n - 1), "file", ps[n])
                 /\ (n >= 2 /\ isDirectoryUrl(items[j]) /\ ArrayAt(before, ps).found) =>
                        after = before
                 /\ (n >= 2 /\ ~isDirectoryUrl(items[j])
                       /\ ArrayAt(before, SubSeq(ps, 1, n - 1)).found) =>
                        LET old == ArrayAt(before, SubSeq(ps, 1, n - 1)).arr
                            new == ArrayAt(after, SubSeq(ps, 1, n - 1)).arr
                        IN (new = old /\ after = before)
                             \/ new = Append(old, File(ps[n]))
        /\ items = FeedExample => out.tree = ExampleTree

\* C10 witness: the tree of the feed docs/readme.txt, docs/, img.png was built.
C10_Witness ==
    /\ items = FeedExample
    /\ out.err = NoErr

-----------------------------------------------------------------------------
(* Further properties of the cache lifecycle, checked under Spec *)

Malformed(list) == \E j \in 1..Len(list) : list[j].scheme = ""

\* transformToTree throws, returning no tree, on every list with an item
\* whose URL does not parse, wherever the item stands
MalformedAlwaysThrows ==
    \A list \in ItemLists :
        Malformed(list) =>
            (transformToTree(list).err # NoErr /\ transformToTree(list).tree = <<>>)

\* C11: when an item of the fetched list does not parse as a URL, the build
\* throws for the whole list, the rebuild publishes nothing (the snapshot
\* stays as it was), a request's rebuild answers with an error and no tree,
\* and a background rebuild answers nothing.
C11_MalformedIsFatal ==
    [][ \A i \in 1..Len(inflight), s \in Settlements :
           (SettleStep(i, s) /\ s.kind = "items" /\ Malformed(s.list)) =>
              /\ MalformedAlwaysThrows
              /\ cache' = cache
              /\ GetSettles(i, s) =>
                    (resp'.status \in ErrorStatuses /\ resp'.tree = <<>>)
              /\ UpdateCacheSettles(i, s) => resp' = resp
      ]_vars

\* C11 witness: a snapshot built from the example feed is in the cache and the
\* last request, whose rebuild failed, was answered 500.
C11_Witness ==
    /\ cache.present
    /\ cache.tree = TreeOfFeed[FeedExample].tree
    /\ resp.status = 500

\* the status the claim gives each failure of the fetch
ClaimedStatus(s) ==
    CASE s.kind = "response" /\ s.status = 504 -> 504
      [] s.kind = "response" /\ s.status = 502 -> 502
      [] s.kind = "request"                    -> 502
      [] OTHER                                 -> 500

\* C12: the error response of a request whose rebuild fails is decided by the
\* failure alone: upstream status 504 gives 504, upstream status 502 gives
\* 502, a request without response gives 502, anything else (another
\* upstream status, a URL that does not parse, a throwing build, an unknown
\* error) gives 500; the response has that one status and no tree.
C12_ErrorClassification ==
    [][ \A i \in 1..Len(inflight), s \in Settlements :
           (GetSettles(i, s) /\ Fails(s)) =>
               resp' = [status |-> ClaimedStatus(s), src |-> "rebuild", tree |-> <<>>]
      ]_vars

\* C12 witness: a request's failed rebuild was answered 502 and nothing was
\* published.
C12_Witness ==
    /\ resp.status = 502
    /\ resp.src = "rebuild"
    /\ ~cache.present

-----------------------------------------------------------------------------
(* The cache lifecycle with a healthy upstream: every fetch resolves with a *)
(* feed that builds, in less than one cache duration                        *)

InTime(startedAt, t) == t - startedAt < CACHE_DURATION_MS

WarmUpdateCacheSettles(i, s) ==
    /\ ~Fails(s)
    /\ InTime(inflight[i].startedAt, now)
    /\ UpdateCacheSettles(i, s)

WarmGetSettles(i, s) ==
    /\ ~Fails(s)
    /\ InTime(inflight[i].startedAt, now)
    /\ GetSettles(i, s)

WarmAdvance(t) ==
    /\ \A i \in 1..Len(inflight) : InTime(inflight[i].startedAt, t)
    /\ Advance(t)

WarmNext ==
    \/ Listen
    \/ Tick
    \/ GetFromCache
    \/ GetStartsFetch
    \/ \E i \in 1..Len(inflight), s \in Settlements : WarmUpdateCacheSettles(i, s)
    \/ \E i \in 1..Len(inflight), s \in Settlements : WarmGetSettles(i, s)
    \/ \E t \in TimePoints : WarmAdvance(t)

WarmSpec == Init /\ [][WarmNext]_vars

\* C13 (as claimed): with every fetch succeeding in less than one cache
\* duration, once the initial background build is published (the interval
\* is set) no request starts a fetch.
C13_AlwaysWarm ==
    [][ (timer.armed /\ cache.present) => ~GetStartsFetch ]_vars

\* C14 (as claimed): right after any rebuild publishes, the age of the
\* snapshot is below the cache duration, however long the fetch took.
C14_PublishedIsFresh ==
    [][ \A i \in 1..Len(inflight), s \in Settlements :
           (SettleStep(i, s) /\ ~Fails(s)) =>
               (cache'.present /\ now - cache'.timestamp < CACHE_DURATION_MS)
      ]_vars

-----------------------------------------------------------------------------
(* The executions in which rebuilds are serialized: a rebuild starts only
   when none is in flight *)

SerialListen == inflight = <<>> /\ Listen
SerialTick == inflight = <<>> /\ Tick
SerialGetStartsFetch == inflight = <<>> /\ GetStartsFetch

SerialNext ==
    \/ SerialListen
    \/ SerialTick
    \/ GetFromCache
    \/ SerialGetStartsFetch
    \/ \E i \in 1..Len(inflight), s \in Settlements : UpdateCacheSettles(i, s)
    \/ \E i \in 1..Len(inflight), s \in Settlements : GetSettles(i, s)
    \/ \E t \in TimePoints : Advance(t)

SerialSpec == Init /\ [][SerialNext]_vars

\* C15: when no two rebuilds are in flight at the same time, the timestamp
\* of the published snapshot never decreases from one publication to the next
C15_MonotonicWhenSerialized ==
    [][ (cache.present /\ cache'.present) => cache'.timestamp >= cache.timestamp ]_vars

\* a second publication: the snapshot a request was served from has been replaced
C15_Witness ==
    /\ resp.src = "cache"
    /\ resp.tree = TreeOfFeed[FeedExample].tree
    /\ cache.present
    /\ cache.tree = TreeOfFeed[FeedOther].tree
    /\ cache.timestamp > 0

-----------------------------------------------------------------------------
(* Concurrency of rebuilds, checked under Spec *)

\* the snapshot is Empty or Stale at the time t
EmptyOrStale(c, t) == ~c.present \/ t - c.timestamp >= CACHE_DURATION_MS

\* C16: a request that finds the snapshot Empty or Stale starts its own
\* fetch whatever is already in flight (a background refresh or other
\* requests' rebuilds), and that fetch is added to the ones in flight
C16_NotCoalesced ==
    [][ /\ (started /\ EmptyOrStale(cache, now) /\ Len(inflight) < MaxInFlight)
            => ENABLED GetStartsFetch
        /\ GetStartsFetch =>
              /\ EmptyOrStale(cache, now)
              /\ inflight' = Append(inflight, Rebuild("get", FALSE, now))
              /\ cache' = cache
      ]_vars

\* two requests found the same Stale snapshot and both are fetching
C16_Witness ==
    /\ cache.present
    /\ now - cache.timestamp >= CACHE_DURATION_MS
    /\ Len(inflight) = 2
    /\ inflight[1].who = "get"
    /\ inflight[2].who = "get"

\* a request is fetching while a background refresh is in flight
C16_WitnessBackground ==
    /\ Len(inflight) = 2
    /\ inflight[1].who = "updateCache"
    /\ inflight[2].who = "get"

\* C17: once the interval is set, every tick starts a rebuild, whatever the
\* snapshot, the requests and the earlier rebuilds are; the interval is never
\* cleared, and a failed background rebuild leaves it as it was, so the next
\* tick comes one period later
C17_TickUnconditional ==
    [][ /\ (timer.armed /\ now = timer.next /\ Len(inflight) < MaxInFlight)
            => ENABLED Tick
        /\ Tick =>
              /\ inflight' = Append(inflight, Rebuild("updateCache", FALSE, now))
              /\ timer' = [armed |-> TRUE, next |-> now + CACHE_DURATION_MS]
        /\ timer.armed => timer'.armed
        /\ \A i \in 1..Len(inflight), s \in Settlements :
              (UpdateCacheSettles(i, s) /\ Fails(s) /\ ~inflight[i].initial)
                  => timer' = timer
      ]_vars

\* a tick started a rebuild while the snapshot is Fresh and the rebuild of
\* the previous tick is still in flight
C17_Witness ==
    /\ IsFresh(cache, now)
    /\ Len(inflight) = 2
    /\ \A i \in 1..2 : inflight[i].who = "updateCache" /\ ~inflight[i].initial
    /\ inflight[1].startedAt + CACHE_DURATION_MS = inflight[2].startedAt
    /\ now = inflight[2].startedAt

\* a tick started a rebuild after the initial rebuild failed and no request
\* arrived: the snapshot is Empty
C17_WitnessAfterFailure ==
    /\ ~cache.present
    /\ resp = NoResponse
    /\ Len(inflight) = 1
    /\ inflight[1].who = "updateCache" /\ ~inflight[1].initial

-----------------------------------------------------------------------------
(* Replacement of snapshots, checked under Spec *)

\* the trees transformToTree returns, each built whole from one list of items
CompleteTrees == { TreeOfFeed[f].tree : f \in { g \in Feeds : TreeOfFeed[g].err = NoErr } }

\* the timestamp the rebuild inflight[i] stamps when it completes at the time t
StampOf(i, t) ==
    IF inflight[i].who = "updateCache"
    THEN UpdateCacheTimestamp(inflight[i].startedAt, t)
    ELSE GetTimestamp(inflight[i].startedAt, t)

\* C18: the cache changes only when a rebuild completes successfully, and
\* then its tree and its timestamp are both replaced in that one step, by the
\* whole tree that rebuild built and by that rebuild's timestamp; between
\* publications neither changes, and a request served from the cache gets the
\* whole tree of the snapshot
C18_ReplacedWholesale ==
    [][ /\ cache' # cache =>
              \E i \in 1..Len(inflight), s \in Settlements :
                  /\ SettleStep(i, s)
                  /\ ~Fails(s)
                  /\ cache' = Snapshot(BuiltTree(s), StampOf(i, now))
        /\ cache'.present => cache'.tree \in CompleteTrees
        /\ GetFromCache => (resp' = TreeResponse("cache", cache.tree) /\ cache' = cache)
        /\ resp'.status = 200 => resp'.tree \in CompleteTrees
      ]_vars

\* a request was served the replaced snapshot while another rebuild is in flight
C18_Witness ==
    /\ cache.present
    /\ cache.tree = TreeOfFeed[FeedOther].tree
    /\ resp = TreeResponse("cache", cache.tree)
    /\ inflight # <<>>
    /\ cache.timestamp > 0

-----------------------------------------------------------------------------
(* Startup with no request ever arriving: the upstream may fail until the
   time HealthyFrom, and every fetch that settles from then on succeeds.
   The event loop runs the listen callback and the due interval callback,
   every fetch settles, and time passes. *)

HealthyFrom == CACHE_DURATION_MS + 1

LiveUpdateCacheSettles(i, s) ==
    /\ Fails(s) => now < HealthyFrom
    /\ UpdateCacheSettles(i, s)

LiveSettles == \E i \in 1..Len(inflight), s \in Settlements : LiveUpdateCacheSettles(i, s)
LiveAdvance == \E t \in TimePoints : Advance(t)

LiveNext ==
    \/ Listen
    \/ Tick
    \/ LiveSettles
    \/ LiveAdvance

LiveSpec ==
    /\ Init
    /\ [][LiveNext]_vars
    /\ WF_vars(Listen)
    /\ WF_vars(Tick)
    /\ WF_vars(LiveSettles)
    /\ WF_vars(LiveAdvance)

\* C19: the listen callback attempts one initial rebuild; the interval is
\* set exactly once, when that rebuild has settled, whether it succeeded or
\* failed; and so, without any request, the cache eventually holds a snapshot
C19_StartupPopulates ==
    /\ [][ /\ Listen => (~started /\ inflight' = <<Rebuild("updateCache", TRUE, now)>>)
           /\ (~timer.armed /\ timer'.armed) <=>
                 \E i \in 1..Len(inflight), s \in Settlements :
                     UpdateCacheSettles(i, s) /\ inflight[i].initial
           /\ timer'.armed => \A i \in 1..Len(inflight') : ~inflight'[i].initial
           /\ timer.armed => timer'.armed
         ]_vars
    /\ <>cache.present

\* the initial rebuild failed, the interval was set all the same, and its
\* tick has started the rebuild that will populate the Empty cache
C19_Witness ==
    /\ ~cache.present
    /\ timer.armed
    /\ now >= HealthyFrom
    /\ Len(inflight) = 1
    /\ ~inflight[1].initial

=============================================================================
